---- MODULE Spec2Model ----
(***************************************************************************)
(* Model of mdsynthesis/core/bundle.py: the Bundle collection, its         *)
(* in-memory backend table (_BundleBackend) and its handle cache.          *)
(*                                                                         *)
(* The source is Python 2 with numpy structured arrays; the definitions    *)
(* below follow the array semantics the code relies on:                    *)
(*   - the backend table is None until the first add_member, then a        *)
(*     structured array of shape (n,1); np.delete without an axis          *)
(*     flattens it to shape (n,);                                          *)
(*   - a fixed-width string field ('a<width>') keeps the first <width>     *)
(*     characters of what is assigned to it;                               *)
(*   - the truth value of a one-element index array is the truth value of  *)
(*     its element, that of an empty one is False.                         *)
(* Optional values (a handle or Python's None) are sets with at most one   *)
(* element: {} is None, {h} is the handle h.                               *)
(***************************************************************************)
EXTENDS Integers, Sequences, FiniteSets, TLC

VARIABLES
    table,      \* rows of _BundleBackend.table, in row order
    shape,      \* "None": table is None; "2d": shape (n,1); "1d": shape (n,);
                \* "object": array([None]), an array without fields
    cache,      \* Bundle._cache: uuid -> optional handle
    last,       \* the last operation: its name, arguments, exception, result
    nops,       \* number of operations performed so far
    map         \* position of a running map() call

vars == <<table, shape, cache, last, nops, map>>

\* what `last` holds: the call, its argument, what the resolver answered,
\* the exception raised, the value returned, the message of the exception,
\* and the backend and cache the call started from
Record(op, arg, found, exc, ret, msg) ==
    [op |-> op, arg |-> arg, found |-> found, exc |-> exc, ret |-> ret,
     msg |-> msg, pre |-> table, preShape |-> shape, preCache |-> cache]

(***************************************************************************)
(* Bounds and input universes                                              *)
(***************************************************************************)
MaxOps == 3
PathLength == 3

Ids == {1, 2, 3}
MaxIndex == 3
Kinds == {"Sim", "Group"}
\* basedirs a handle may report: a plain one, one with a trailing separator,
\* and one longer than the path field
Dirs == { <<"/", "a">>, <<"/", "b", "/">>, <<"/", "a", "b", "c">> }
Cwd == <<"/", "w">>

Handles == [uuid : Ids, containertype : Kinds, basedir : Dirs]

None == {}
Some(h) == {h}
Truthy(o) == o # {}
The(o) == CHOOSE h \in o : TRUE

Min(S) == CHOOSE x \in S : \A y \in S : x <= y

(***************************************************************************)
(* _BundleBackend                                                          *)
(***************************************************************************)
\* os.path.normpath on the paths used here: trailing separators are dropped
RECURSIVE Normpath(_)
Normpath(p) ==
    IF Len(p) > 1 /\ p[Len(p)] = "/"
    THEN Normpath(SubSeq(p, 1, Len(p) - 1))
    ELSE p

\* os.path.abspath: a relative path is joined to the working directory
Abspath(p) ==
    IF Len(p) > 0 /\ p[1] = "/"
    THEN Normpath(p)
    ELSE Normpath(Cwd \o <<"/">> \o p)

\* assignment to a numpy 'a<width>' field
Field(s, width) == SubSeq(s, 1, IF Len(s) < width THEN Len(s) ELSE width)

\* _member2record
member2record(uuid, containertype, basedir) ==
    [uuid |-> uuid,
     containertype |-> containertype,
     abspath |-> Field(Abspath(basedir), PathLength)]

\* np.where(self.table['uuid'] == uuid)[0], as 1-based row numbers
Where(rows, uuid) == {i \in 1..Len(rows) : rows[i].uuid = uuid}

\* the exception of self.table['uuid'] (lines 145, 286, 317, 367): None takes
\* no subscript, and the array without fields that del_member can leave takes
\* no field name (IndexError as of numpy 1.9)
NoField(t) ==
    IF t.shape = "None" THEN "TypeError"
    ELSE IF t.shape = "object" THEN "IndexError"
    ELSE "none"

\* add_member on backend state t = [rows, shape]; exc is the exception raised
add_member(t, uuid, containertype, basedir) ==
    IF t.shape = "None"
    THEN [rows |-> <<member2record(uuid, containertype, basedir)>>,
          shape |-> "2d", exc |-> "none"]
    ELSE IF NoField(t) # "none"
    THEN [rows |-> t.rows, shape |-> t.shape, exc |-> NoField(t)]
    ELSE LET index == Where(t.rows, uuid) IN
         IF index # {}
         THEN [rows |-> [t.rows EXCEPT ![Min(index)].abspath =
                            Field(Abspath(basedir), PathLength)],
               shape |-> t.shape, exc |-> "none"]
         ELSE \* np.vstack((table, newmem)): newmem has shape (1,1); a table of
              \* shape (n,) is promoted to (1,n), which stacks only when n = 1
              IF t.shape = "1d" /\ Len(t.rows) # 1
              THEN [rows |-> t.rows, shape |-> t.shape, exc |-> "ValueError"]
              ELSE [rows |-> Append(t.rows,
                                    member2record(uuid, containertype, basedir)),
                    shape |-> "2d", exc |-> "none"]

\* the rows of a table without those at the positions in idx
RECURSIVE DeleteRows(_, _)
DeleteRows(rows, idx) ==
    IF rows = <<>> THEN <<>>
    ELSE LET n == Len(rows)
             front == DeleteRows(SubSeq(rows, 1, n - 1), idx)
         IN IF n \in idx THEN front ELSE Append(front, rows[n])

\* `if index:` on the index array of a uuid: true only for one match whose
\* 0-based row number is not 0
IndexTruth(index) == Cardinality(index) = 1 /\ (Min(index) - 1) # 0

\* del_member(*uuid, all=...) on backend state t
del_member(t, uuids, all) ==
    IF all
    THEN \* lines 308-309: self.table = None, whatever uuids are given
         [rows |-> <<>>, shape |-> "None", exc |-> "none"]
    ELSE IF uuids # {} /\ NoField(t) # "none"
    THEN \* line 317 subscripts the table for the first uuid
         [rows |-> t.rows, shape |-> t.shape, exc |-> NoField(t)]
    ELSE IF NoField(t) # "none"
    THEN \* no uuid: np.delete(None, []) is array([None], dtype=object), and
         \* np.delete of that array with no index is a copy of it
         [rows |-> <<>>, shape |-> "object", exc |-> "none"]
    ELSE LET matches == {i \in 1..Len(t.rows) :
                            /\ t.rows[i].uuid \in uuids
                            /\ IndexTruth(Where(t.rows, t.rows[i].uuid))}
         IN [rows |-> DeleteRows(t.rows, matches), shape |-> "1d",
             exc |-> "none"]

\* get_members_uuid().tolist()
get_members_uuid(rows) == [i \in 1..Len(rows) |-> rows[i].uuid]

(***************************************************************************)
(* _CollectionBase                                                         *)
(***************************************************************************)
\* the shapes an argument of add() can take
Cont(h) == [tag |-> "cont", h |-> h]
NoneArg == [tag |-> "none"]
ListArg(items) == [tag |-> "list", items |-> items]
\* a path string that exists; found is what filesystem.path2container yields
PathArg(found) == [tag |-> "path", found |-> found]

\* lines 60-63: add_member for each collected container, in order; an
\* exception ends the loop
RECURSIVE AddMembers(_, _)
AddMembers(t, outconts) ==
    IF outconts = <<>> \/ t.exc # "none" THEN t
    ELSE AddMembers(add_member(t, Head(outconts).uuid,
                               Head(outconts).containertype,
                               Head(outconts).basedir),
                    Tail(outconts))

\* add(*containers): lines 46-58 scan the arguments, a nested collection is
\* added by a recursive call at once, a container is collected in outconts
RECURSIVE add(_, _)
RECURSIVE AddScan(_, _, _)
AddScan(t, containers, outconts) ==
    IF containers = <<>> \/ t.exc # "none"
    THEN [t |-> t, outconts |-> outconts]
    ELSE LET c == Head(containers) IN
         CASE c.tag = "none" -> AddScan(t, Tail(containers), outconts)
           [] c.tag = "list" -> AddScan(add(t, c.items), Tail(containers), outconts)
           [] c.tag = "cont" -> AddScan(t, Tail(containers), Append(outconts, c.h))
           [] c.tag = "path" -> AddScan(t, Tail(containers), outconts \o c.found)

add(t, containers) ==
    LET s == AddScan([rows |-> t.rows, shape |-> t.shape, exc |-> "none"],
                     containers, <<>>)
    IN AddMembers(s.t, s.outconts)

\* 0-based Python index into a list of length n, as a 1-based position;
\* 0 when the index is out of range (IndexError)
PyIndex(i, n) ==
    IF i >= 0 /\ i < n THEN i + 1
    ELSE IF i < 0 /\ i >= -n THEN n + i + 1
    ELSE 0

\* the shapes an argument of remove() can take
IntArg(i) == [tag |-> "int", i |-> i]
OtherArg == [tag |-> "other"]

\* lines 81-88: the uuids to remove, or the exception of the first bad argument
RECURSIVE RemoveScan(_, _, _)
RemoveScan(uuids, members, remove) ==
    IF members = <<>> THEN [remove |-> remove, exc |-> "none"]
    ELSE LET m == Head(members) IN
         CASE m.tag = "int" ->
                IF PyIndex(m.i, Len(uuids)) = 0
                THEN [remove |-> remove, exc |-> "IndexError"]
                ELSE RemoveScan(uuids, Tail(members),
                                Append(remove, uuids[PyIndex(m.i, Len(uuids))]))
           [] m.tag = "cont" ->
                RemoveScan(uuids, Tail(members), Append(remove, m.h.uuid))
           [] OTHER -> [remove |-> remove, exc |-> "TypeError"]

Range(s) == {s[i] : i \in DOMAIN s}

\* remove() without lines 92-94: the cache keeps the entries of the removed
removeKeepsCache(t, c, members, all) ==
    IF NoField(t) # "none"
    THEN [rows |-> t.rows, shape |-> t.shape, cache |-> c, exc |-> NoField(t)]
    ELSE LET uuids == get_members_uuid(t.rows)
             r == IF all THEN [remove |-> uuids, exc |-> "none"]
                  ELSE RemoveScan(uuids, members, <<>>)
         IN IF r.exc # "none"
            THEN [rows |-> t.rows, shape |-> t.shape, cache |-> c, exc |-> r.exc]
            ELSE LET d == del_member(t, Range(r.remove), FALSE)
                 IN [rows |-> d.rows, shape |-> d.shape, cache |-> c,
                     exc |-> "none"]

\* remove(*members, all=...) on backend state t and cache c
remove(t, c, members, all) ==
    IF NoField(t) # "none"
    THEN \* get_members_uuid subscripts the table
         [rows |-> t.rows, shape |-> t.shape, cache |-> c, exc |-> NoField(t)]
    ELSE LET uuids == get_members_uuid(t.rows)
             r == IF all THEN [remove |-> uuids, exc |-> "none"]
                  ELSE RemoveScan(uuids, members, <<>>)
         IN IF r.exc # "none"
            THEN [rows |-> t.rows, shape |-> t.shape, cache |-> c, exc |-> r.exc]
            ELSE LET d == del_member(t, Range(r.remove), FALSE)
                 IN [rows |-> d.rows, shape |-> d.shape,
                     cache |-> [u \in (DOMAIN c) \ Range(r.remove) |-> c[u]],
                     exc |-> "none"]

\* lines 150-155: the ids with no truthy cache entry, in table order
findlist(rows, c) ==
    SelectSeq(get_members_uuid(rows),
              LAMBDA u : ~(u \in DOMAIN c /\ Truthy(c[u])))

\* foundconts.values() as arguments of add()
RECURSIVE FoundArgs(_, _)
FoundArgs(pending, found) ==
    IF pending = <<>> THEN <<>>
    ELSE <<IF Truthy(found[Head(pending)])
           THEN Cont(The(found[Head(pending)]))
           ELSE NoneArg>> \o FoundArgs(Tail(pending), found)

\* _list() on backend state t and cache c, when the resolver (Foxhound.fetch)
\* answers found : pending uuid -> optional handle
_list(t, c, found) ==
    IF NoField(t) # "none"
    THEN \* members['uuid'] subscripts the table
         [rows |-> t.rows, shape |-> t.shape, cache |-> c,
          exc |-> NoField(t), ret |-> <<>>, msg |-> <<>>]
    ELSE LET uuids == get_members_uuid(t.rows)
             pending == findlist(t.rows, c)
             newcache == [u \in (DOMAIN c) \cup (DOMAIN found) |->
                             IF u \in DOMAIN found THEN found[u] ELSE c[u]]
             a == add(t, FoundArgs(pending, found))
             missing == {k \in 1..Len(pending) : ~Truthy(found[pending[k]])}
             memberlist == [i \in 1..Len(uuids) |->
                              IF uuids[i] \in DOMAIN found
                              THEN found[uuids[i]] ELSE c[uuids[i]]]
         IN IF missing # {}
            THEN LET uuid == pending[Min(missing)] IN
                 [rows |-> a.rows, shape |-> a.shape, cache |-> newcache,
                  exc |-> "IOError", ret |-> <<>>,
                  msg |-> <<Min(Where(t.rows, uuid)) - 1, uuid>>]
            ELSE [rows |-> a.rows, shape |-> a.shape, cache |-> newcache,
                  exc |-> "none", ret |-> memberlist, msg |-> <<>>]

\* what the resolver may answer for the pending ids: for each, absent or a
\* handle carrying that id
\* the type of the entity behind each id
KindOf(u) == IF u = 2 THEN "Group" ELSE "Sim"

Answers(pending) ==
    {f \in [Range(pending) -> {None} \cup {Some(h) : h \in Handles}] :
        \A u \in Range(pending) :
            Truthy(f[u]) => /\ The(f[u]).uuid = u
                            /\ The(f[u]).containertype = KindOf(u)}

\* the display name of a handle
name(h) == <<"name", h.uuid>>

\* the function handed to map(): any function of the member
F(h) == <<"f", h.uuid, h.basedir>>

(***************************************************************************)
(* The state machine: one Bundle and the calls made on it                  *)
(***************************************************************************)
Backend == [rows |-> table, shape |-> shape]

Idle == [pc |-> "idle", i |-> 0, processes |-> 0, acc |-> <<>>,
         results |-> <<>>, queued |-> {}, running |-> {}, finished |-> {}]

\* Bundle(): lines 412-416 with no containers
Init ==
    /\ table = <<>>
    /\ shape = "None"
    /\ cache = <<>>
    /\ nops = 0
    /\ map = Idle
    /\ last = [op |-> "init", arg |-> <<>>, found |-> <<>>, exc |-> "none",
               ret |-> <<>>, msg |-> <<>>, pre |-> <<>>, preShape |-> "None",
               preCache |-> <<>>]

Ready == map.pc = "idle" /\ nops < MaxOps

\* one handle per id, for arguments of which only the id or the order matters
Canon(u) == [uuid |-> u, containertype |-> KindOf(u), basedir |-> <<"/", "a">>]

\* the argument lists of add() that are tried
AddArgs ==
    {<<Cont(h)>> : h \in Handles}
    \cup {<<Cont(Canon(1)), Cont(Canon(2)), Cont(Canon(3))>>,
          <<Cont(Canon(1)), ListArg(<<Cont(Canon(2))>>), Cont(Canon(3))>>,
          <<NoneArg, Cont(Canon(2))>>,
          <<PathArg(<<Canon(2), Canon(3)>>)>>,
          <<>>}

Add(containers) ==
    /\ Ready
    /\ LET a == add(Backend, containers) IN
       /\ table' = a.rows
       /\ shape' = a.shape
       /\ last' = Record("add", containers, <<>>, a.exc, <<>>, <<>>)
    /\ nops' = nops + 1
    /\ UNCHANGED <<cache, map>>

\* the argument lists of remove() that are tried
RemoveArgs ==
    {<<IntArg(i)>> : i \in 0..MaxIndex}
    \cup {<<Cont(Canon(u))>> : u \in Ids}
    \cup {<<OtherArg>>, <<IntArg(1), OtherArg>>, <<IntArg(1), IntArg(1)>>, <<>>}

Remove(members, all) ==
    /\ Ready
    /\ LET r == remove(Backend, cache, members, all) IN
       /\ table' = r.rows
       /\ shape' = r.shape
       /\ cache' = r.cache
       /\ last' = Record("remove", [members |-> members, all |-> all],
                         <<>>, r.exc, <<>>, <<>>)
    /\ nops' = nops + 1
    /\ UNCHANGED map

\* the state change of a call of _list(), shared by the callers below
Listed(l) ==
    /\ table' = l.rows
    /\ shape' = l.shape
    /\ cache' = l.cache

List ==
    /\ Ready
    /\ \E found \in Answers(findlist(table, cache)) :
         LET l == _list(Backend, cache, found) IN
         /\ Listed(l)
         /\ last' = Record("list", <<>>, found, l.exc, l.ret, l.msg)
    /\ nops' = nops + 1
    /\ UNCHANGED map

\* __len__: len(self._list())
LenCall ==
    /\ Ready
    /\ \E found \in Answers(findlist(table, cache)) :
         LET l == _list(Backend, cache, found) IN
         /\ Listed(l)
         /\ last' = Record("len", <<>>, found, l.exc,
                           IF l.exc = "none" THEN <<Len(l.ret)>> ELSE <<>>, l.msg)
    /\ nops' = nops + 1
    /\ UNCHANGED map

\* __getitem__ with an integer: self._list()[index]
GetItem(index) ==
    /\ Ready
    /\ \E found \in Answers(findlist(table, cache)) :
         LET l == _list(Backend, cache, found)
             k == PyIndex(index, Len(l.ret))
         IN
         /\ Listed(l)
         /\ last' = IF l.exc # "none"
                    THEN Record("getitem", index, found, l.exc, <<>>, l.msg)
                    ELSE IF k = 0
                    THEN Record("getitem", index, found, "IndexError", <<>>, <<>>)
                    ELSE Record("getitem", index, found, "none", <<l.ret[k]>>, <<>>)
    /\ nops' = nops + 1
    /\ UNCHANGED map

\* names: lines 115-122
Names ==
    /\ Ready
    /\ \E found \in Answers(findlist(table, cache)) :
         LET l == _list(Backend, cache, found) IN
         /\ Listed(l)
         /\ last' = Record("names", <<>>, found, l.exc,
                           [i \in 1..Len(l.ret) |->
                               IF Truthy(l.ret[i])
                               THEN Some(name(The(l.ret[i]))) ELSE None],
                           l.msg)
    /\ nops' = nops + 1
    /\ UNCHANGED map

\* lines 60-63 on a backend whose add_member raises IOError for the uuids in
\* denied (a state file that cannot be written), as the file-backed backend
\* of the same interface can
RECURSIVE AddMembersIO(_, _, _)
AddMembersIO(t, outconts, denied) ==
    IF outconts = <<>> \/ t.exc # "none" THEN t
    ELSE IF Head(outconts).uuid \in denied
    THEN [t EXCEPT !.exc = "IOError"]
    ELSE AddMembersIO(add_member(t, Head(outconts).uuid,
                                 Head(outconts).containertype,
                                 Head(outconts).basedir),
                      Tail(outconts), denied)

\* the containers found, in the order foundconts.values() yields them
RECURSIVE FoundConts(_, _)
FoundConts(order, found) ==
    IF order = <<>> THEN <<>>
    ELSE (IF Truthy(found[Head(order)])
          THEN <<The(found[Head(order)])>> ELSE <<>>)
         \o FoundConts(Tail(order), found)

\* _list() on such a backend: the IOError of the re-add is caught at lines
\* 167-170, everything else is as in _list
_listIO(t, c, found, order, denied) ==
    LET l == _list(t, c, found)
        a == AddMembersIO([rows |-> t.rows, shape |-> t.shape, exc |-> "none"],
                          FoundConts(order, found), denied)
    IN IF NoField(t) # "none" THEN l
       ELSE [l EXCEPT !.rows = a.rows, !.shape = a.shape]

\* the orders a dict of the pending ids can be iterated in
Orders(pending) ==
    {o \in [1..Len(pending) -> Range(pending)] : Range(o) = Range(pending)}

\* _list() while the refresh of one found member raises IOError
ListIO ==
    /\ Ready
    /\ \E found \in Answers(findlist(table, cache)) :
       \E order \in Orders(findlist(table, cache)) :
       \E u \in {v \in DOMAIN found : Truthy(found[v])} :
         LET l == _listIO(Backend, cache, found, order, {u}) IN
         /\ Listed(l)
         /\ last' = Record("list_io", [order |-> order, denied |-> u],
                           found, l.exc, l.ret, l.msg)
    /\ nops' = nops + 1
    /\ UNCHANGED map

\* __getitem__ with a slice [a:b], 0 <= a <= b: Bundle(*self._list()[a:b]);
\* the result is the backend state of the new Bundle
RECURSIVE AsConts(_)
AsConts(members) ==
    IF members = <<>> THEN <<>>
    ELSE <<Cont(The(Head(members)))>> \o AsConts(Tail(members))

GetSlice(a, b) ==
    /\ Ready
    /\ \E found \in Answers(findlist(table, cache)) :
         LET l == _list(Backend, cache, found)
             hi == IF b < Len(l.ret) THEN b ELSE Len(l.ret)
             new == add([rows |-> <<>>, shape |-> "None"],
                        AsConts(SubSeq(l.ret, a + 1, hi)))
         IN
         /\ Listed(l)
         /\ last' = Record("slice", <<a, b>>, found, l.exc,
                           IF l.exc = "none"
                           THEN <<[rows |-> new.rows, shape |-> new.shape]>>
                           ELSE <<>>,
                           l.msg)
    /\ nops' = nops + 1
    /\ UNCHANGED map

(***************************************************************************)
(* map(): lines 220-234, one step per iteration of `for member in self`.   *)
(* The class defines __getitem__ and no __iter__, so the loop calls        *)
(* self[0], self[1], ... until IndexError; each call runs _list().         *)
(***************************************************************************)
MapCall(processes) ==
    /\ Ready
    /\ map' = [Idle EXCEPT !.pc = "iter", !.processes = processes]
    /\ last' = Record("map_call", processes, <<>>, "none", <<>>, <<>>)
    /\ nops' = nops + 1
    /\ UNCHANGED <<table, shape, cache>>

\* results, in the order of self.uuids (line 230)
ByMemberOrder(results, rows) ==
    [i \in 1..Len(rows) |-> results[rows[i].uuid]]

\* the next self[i] of the loop, and what the loop body does with it
MapIter ==
    /\ map.pc = "iter"
    /\ \E found \in Answers(findlist(table, cache)) :
         LET l == _list(Backend, cache, found) IN
         /\ Listed(l)
         /\ IF l.exc \notin {"none", "IndexError"}
            THEN /\ map' = Idle
                 /\ last' = Record("map", map.processes, found, l.exc, <<>>, l.msg)
            ELSE IF l.exc = "IndexError" \/ PyIndex(map.i, Len(l.ret)) = 0
            THEN \* an IndexError out of self[i] ends the loop, whether the
                 \* list index raised it or _list() did; with a pool,
                 \* self.uuids at line 230 then subscripts the table again
                 LET e == IF map.processes > 1
                          THEN NoField([rows |-> l.rows, shape |-> l.shape])
                          ELSE "none"
                 IN
                 /\ map' = Idle
                 /\ last' = Record("map", map.processes, found, e,
                                   IF e # "none" THEN <<>>
                                   ELSE IF map.processes > 1
                                   THEN ByMemberOrder(map.results, l.rows)
                                   ELSE map.acc,
                                   <<>>)
            ELSE LET member == The(l.ret[map.i + 1]) IN
                 /\ last' = Record("map_iter", map.processes, found, "none",
                                   <<>>, <<>>)
                 /\ IF map.processes > 1
                    THEN \* pool.apply_async(...).get(): submit, then block
                         map' = [map EXCEPT !.pc = "get",
                                            !.queued = @ \cup {member}]
                    ELSE map' = [map EXCEPT !.acc = Append(@, F(member)),
                                            !.i = @ + 1]
    /\ UNCHANGED nops

\* a free pool worker takes a submitted task
WorkerStart(member) ==
    /\ member \in map.queued
    /\ Cardinality(map.running) < map.processes
    /\ map' = [map EXCEPT !.queued = @ \ {member}, !.running = @ \cup {member}]
    /\ UNCHANGED <<table, shape, cache, last, nops>>

\* the worker finishes the task
WorkerFinish(member) ==
    /\ member \in map.running
    /\ map' = [map EXCEPT !.running = @ \ {member},
                          !.finished = @ \cup {member}]
    /\ UNCHANGED <<table, shape, cache, last, nops>>

\* .get() returns the result of the task just submitted
MapGet ==
    /\ map.pc = "get"
    /\ \E member \in map.finished :
         map' = [map EXCEPT !.pc = "iter", !.i = @ + 1,
                            !.finished = @ \ {member},
                            !.results = [u \in (DOMAIN @) \cup {member.uuid} |->
                                           IF u = member.uuid THEN F(member)
                                           ELSE @[u]]]
    /\ UNCHANGED <<table, shape, cache, last, nops>>

Next ==
    \/ \E containers \in AddArgs : Add(containers)
    \/ \E members \in RemoveArgs : Remove(members, FALSE)
    \/ \E members \in {<<>>, <<OtherArg>>} : Remove(members, TRUE)
    \/ List
    \/ ListIO
    \/ LenCall
    \/ \E index \in 0..MaxIndex : GetItem(index)
    \/ Names
    \/ \E s \in {<<0, 1>>, <<0, 3>>, <<1, 2>>} : GetSlice(s[1], s[2])
    \/ \E processes \in {1, 2} : MapCall(processes)
    \/ MapIter
    \/ \E member \in Handles : WorkerStart(member)
    \/ \E member \in Handles : WorkerFinish(member)
    \/ MapGet

Spec == Init /\ [][Next]_vars

(***************************************************************************)
(* The Bundle together with direct calls of its backend: del_member is the *)
(* only way to the all=True branch of lines 308-309, which remove() never  *)
(* takes (line 90 passes no keyword).  The cache belongs to the Bundle and *)
(* is not touched by a call of the backend.                                *)
(***************************************************************************)
\* the uuids and the keyword that del_member is called with
DelMemberArgs ==
    {[uuids |-> u, all |-> a] : u \in {{}, {1}, {2, 3}}, a \in BOOLEAN}

\* self._backend.del_member(*uuids, all=all)
DelMember(uuids, all) ==
    /\ Ready
    /\ LET d == del_member(Backend, uuids, all) IN
       /\ table' = d.rows
       /\ shape' = d.shape
       /\ last' = Record("del_member", [uuids |-> uuids, all |-> all],
                         <<>>, d.exc, <<>>, <<>>)
    /\ nops' = nops + 1
    /\ UNCHANGED <<cache, map>>

NextBackend ==
    \/ Next
    \/ \E a \in DelMemberArgs : DelMember(a.uuids, a.all)

SpecBackend == Init /\ [][NextBackend]_vars

(***************************************************************************)
(* Properties                                                              *)
(***************************************************************************)
AllFound(found) == \A u \in DOMAIN found : Truthy(found[u])
SomeMissing(found) == \E u \in DOMAIN found : ~Truthy(found[u])
SameRows(a, b) == Len(a) = Len(b) /\ \A i \in 1..Len(a) : a[i] = b[i]

\* C1: when list() meets a pending id the resolver cannot find, it fails with
\* the member-not-found error naming a missing id and its position, and the
\* table is row for row what it was before the call.
C1_MissingLeavesTableUnchanged ==
    (last.op = "list" /\ SomeMissing(last.found)) =>
        /\ last.exc = "IOError"
        /\ ~Truthy(last.found[last.msg[2]])
        /\ last.pre[last.msg[1] + 1].uuid = last.msg[2]
        /\ SameRows(table, last.pre)

\* C2: remove(i) with a valid 0-based ordinal i deletes exactly the row at
\* position i and its cache entry; the other rows stay and the length drops
\* by one.
C2_RemoveByOrdinal ==
    (/\ last.op = "remove"
     /\ ~last.arg.all
     /\ Len(last.arg.members) = 1
     /\ last.arg.members[1].tag = "int"
     /\ last.arg.members[1].i \in 0..(Len(last.pre) - 1)) =>
        LET i == last.arg.members[1].i + 1
            gone == last.pre[i].uuid
        IN /\ last.exc = "none"
           /\ SameRows(table, DeleteRows(last.pre, {i}))
           /\ Len(table) = Len(last.pre) - 1
           /\ gone \notin Range(get_members_uuid(table))
           /\ gone \notin DOMAIN cache

\* C3: after remove(all=True), in whatever state it is called, the table has
\* no row and the cache no entry; after the backend's del_member(all=True)
\* the table has no row.
C3_RemoveAllEmpties ==
    /\ (last.op = "remove" /\ last.arg.all) =>
          /\ Len(table) = 0
          /\ DOMAIN cache = {}
    /\ (last.op = "del_member" /\ last.arg.all) => Len(table) = 0

\* C4: no two rows share an id, and adding a handle whose id is present changes
\* only that row's location, to the location given; the row count, the row's
\* position and kind and all other rows stay.
C4_IdempotentInsert ==
    /\ \A i, j \in 1..Len(table) : table[i].uuid = table[j].uuid => i = j
    /\ (/\ last.op = "add"
        /\ Len(last.arg) = 1
        /\ last.arg[1].tag = "cont"
        /\ Where(last.pre, last.arg[1].h.uuid) # {}) =>
           /\ last.exc = "none"
           /\ Len(table) = Len(last.pre)
           /\ \A i \in 1..Len(table) :
                table[i] = IF last.pre[i].uuid = last.arg[1].h.uuid
                           THEN [last.pre[i] EXCEPT
                                   !.abspath = Abspath(last.arg[1].h.basedir)]
                           ELSE last.pre[i]

\* C5: when the resolver finds every pending id, list() returns one handle
\* per table row, the handle at each position carrying the id of that row.
C5_ResolutionConsistency ==
    (last.op = "list" /\ AllFound(last.found)) =>
        /\ last.exc = "none"
        /\ Len(last.ret) = Len(table)
        /\ \A i \in 1..Len(table) :
             /\ Truthy(last.ret[i])
             /\ The(last.ret[i]).uuid = table[i].uuid

\* C6: when every member resolves, map(f) returns, for either number of
\* processes, one result per member, result i being f of member i of list().
C6_MapOrder ==
    (last.op = "map" /\ AllFound(last.found)) =>
        /\ last.exc = "none"
        /\ Len(last.ret) = Len(table)
        /\ \A i \in 1..Len(table) :
             last.ret[i] = F(The(cache[table[i].uuid]))

\* the ids whose task has been handed to the pool so far
Submitted ==
    {m.uuid : m \in map.queued \cup map.running \cup map.finished}
        \cup DOMAIN map.results

\* C7: with more than one process, the caller waits for a result only after
\* the task of every member has been submitted, and no more tasks run at
\* once than there are processes.
C7_FanOutBeforeGather ==
    /\ map.pc = "get" => Range(get_members_uuid(table)) \subseteq Submitted
    /\ Cardinality(map.running) <= map.processes

\* C8: names() does not raise when members cannot be resolved; it returns one
\* entry per row, absent at the positions of the unresolvable members and
\* the name of the handle elsewhere.
C8_NamesBestEffort ==
    (last.op = "names" /\ SomeMissing(last.found)) =>
        /\ last.exc = "none"
        /\ Len(last.ret) = Len(table)
        /\ \A i \in 1..Len(table) :
             LET u == table[i].uuid IN
             last.ret[i] = IF u \in DOMAIN last.found
                           THEN IF Truthy(last.found[u])
                                THEN Some(name(The(last.found[u]))) ELSE None
                           ELSE Some(name(The(last.preCache[u])))

\* C9: len() never fails and is the number of rows of the table, whatever the
\* cache holds and whatever the resolver answers.
C9_LengthIsRowCount ==
    last.op = "len" => (last.exc = "none" /\ last.ret = <<Len(table)>>)

\* C10: indexing with a valid position returns the handle of the member at
\* that position whenever that member is cached or resolvable, whatever
\* happens to the other members.
C10_IndexResolvesOneMember ==
    (/\ last.op = "getitem"
     /\ last.arg \in 0..(Len(last.pre) - 1)
     /\ LET u == last.pre[last.arg + 1].uuid IN
        IF u \in DOMAIN last.found THEN Truthy(last.found[u]) ELSE TRUE) =>
        /\ last.exc = "none"
        /\ Truthy(last.ret[1])
        /\ The(last.ret[1]).uuid = last.pre[last.arg + 1].uuid

\* the first argument of remove() that is neither an integer nor a container
FirstOther(members) ==
    Min({k \in 1..Len(members) : members[k].tag = "other"})

\* an integer argument before position k is out of range for n rows
BadIndexBefore(members, k, n) ==
    \E j \in 1..(k - 1) :
        members[j].tag = "int" /\ PyIndex(members[j].i, n) = 0

HasOther(members) == \E k \in 1..Len(members) : members[k].tag = "other"

Untouched ==
    /\ SameRows(table, last.pre)
    /\ shape = last.preShape
    /\ cache = last.preCache

\* C11: remove() with an argument that is neither an integer nor a handle
\* fails with TypeError and leaves table and cache as they were.
C11_Original ==
    (last.op = "remove" /\ HasOther(last.arg.members)) =>
        (last.exc = "TypeError" /\ Untouched)

RemovedByHandle ==
    /\ last.op = "remove"
    /\ ~last.arg.all
    /\ Len(last.arg.members) = 1
    /\ last.arg.members[1].tag = "cont"

\* C12: removing by handle an id that is not in the table raises nothing and
\* leaves the rows as they were, in every table state, the empty one
\* included; and removing a member a second time changes nothing more.
C12_RemoveIgnoresUnknown ==
    RemovedByHandle =>
        /\ (Where(last.pre, last.arg.members[1].h.uuid) = {}) =>
              (last.exc = "none" /\ SameRows(table, last.pre))
        /\ LET again == remove(Backend, cache, last.arg.members, FALSE)
           IN /\ again.exc = "none"
              /\ SameRows(again.rows, table)
              /\ again.cache = cache

\* the containers of an argument list of add(), left to right, a nested
\* collection contributing its elements where it stands
RECURSIVE Flattened(_)
Flattened(containers) ==
    IF containers = <<>> THEN <<>>
    ELSE LET c == Head(containers) IN
         (CASE c.tag = "none" -> <<>>
            [] c.tag = "list" -> Flattened(c.items)
            [] c.tag = "cont" -> <<c.h.uuid>>
            [] c.tag = "path" -> [i \in 1..Len(c.found) |-> c.found[i].uuid])
         \o Flattened(Tail(containers))

\* ids followed by the ids of more that are not yet in it, each once, in order
RECURSIVE Inserted(_, _)
Inserted(ids, more) ==
    IF more = <<>> THEN ids
    ELSE Inserted(IF Head(more) \in Range(ids) THEN ids
                  ELSE Append(ids, Head(more)),
                  Tail(more))

\* C13: an add() that succeeds appends the ids that are new, in the order of
\* their first appearance in the flattened argument list, so that without
\* removals ids() is the order of first appearance.
C13_AddKeepsArgumentOrder ==
    (last.op = "add" /\ last.exc = "none") =>
        get_members_uuid(table) =
            Inserted(get_members_uuid(last.pre), Flattened(last.arg))

\* after a list() that succeeded: count and order of the rows are kept, a row
\* whose member was pending differs at most in its location, which is
\* loc(handle found), the cache holds the handle found; a row whose member was
\* a cache hit and its cache entry are as before
Refreshed(loc(_)) ==
    /\ Len(table) = Len(last.pre)
    /\ \A i \in 1..Len(table) :
         LET u == last.pre[i].uuid IN
         IF u \in DOMAIN last.found
         THEN /\ table[i] = [last.pre[i] EXCEPT
                               !.abspath = loc(The(last.found[u]))]
              /\ cache[u] = last.found[u]
         ELSE /\ table[i] = last.pre[i]
              /\ cache[u] = last.preCache[u]

CurrentLocation(h) == Abspath(h.basedir)
StoredLocation(h) == Field(Abspath(h.basedir), PathLength)

\* C14: after a list() that succeeds, the row of every id that was pending
\* holds the current location of the handle the resolver returned and the
\* cache maps the id to that handle; cache hits keep their cache entry and
\* row; count and order of the rows are unchanged.
C14_SelfHealingRefresh ==
    (last.op = "list" /\ last.exc = "none") => Refreshed(CurrentLocation)

\* C15: when the refresh of one found member raises IOError during list(),
\* list() still returns every handle in table order, and the row of every
\* other member found in the same call is refreshed.
C15_RefreshFailureIsLocal ==
    (last.op = "list_io" /\ AllFound(last.found)) =>
        /\ last.exc = "none"
        /\ Len(last.ret) = Len(table)
        /\ \A i \in 1..Len(table) :
             /\ Truthy(last.ret[i])
             /\ The(last.ret[i]).uuid = table[i].uuid
             /\ (table[i].uuid \in DOMAIN last.found
                 /\ table[i].uuid # last.arg.denied) =>
                   table[i].abspath =
                       StoredLocation(The(last.found[table[i].uuid]))

AddedOne ==
    /\ last.op = "add"
    /\ Len(last.arg) = 1
    /\ last.arg[1].tag = "cont"

\* C16: adding a handle whose location is longer than the path field fails
\* and stores nothing; and what an add stores for a handle is the full
\* location, never a part of it.
C16_OverLengthRejected ==
    AddedOne =>
        LET h == last.arg[1].h IN
        /\ Len(Abspath(h.basedir)) > PathLength =>
              (last.exc # "none" /\ SameRows(table, last.pre))
        /\ last.exc = "none" =>
              \A i \in Where(table, h.uuid) :
                  table[i].abspath = Abspath(h.basedir)

\* C17: a slice with every member resolvable leaves the rows of the source
\* as they were, and the new collection it returns holds the ids of the
\* source at the positions of the slice, in order.
C17_SliceLeavesSource ==
    (last.op = "slice" /\ AllFound(last.found)) =>
        /\ SameRows(table, last.pre)
        /\ last.exc = "none" =>
              get_members_uuid(last.ret[1].rows) =
                  SubSeq(get_members_uuid(table), last.arg[1] + 1,
                         IF last.arg[2] < Len(table)
                         THEN last.arg[2] ELSE Len(table))

\* C18: every cache entry is a handle, carrying the id it is stored under;
\* the cache never holds an absent value.
C18_CacheHoldsOnlyHandles ==
    \A u \in DOMAIN cache : Truthy(cache[u]) /\ The(cache[u]).uuid = u

\* C19: in every state add and remove calls lead to, adding a handle whose id
\* is not in the table succeeds and appends one row for it, and adding one
\* whose id is present rewrites only the location of its row.
C19_AddAfterRemove ==
    AddedOne =>
        LET h == last.arg[1].h IN
        /\ last.exc = "none"
        /\ table =
             IF Where(last.pre, h.uuid) = {}
             THEN Append(last.pre,
                         member2record(h.uuid, h.containertype, h.basedir))
             ELSE [i \in 1..Len(last.pre) |->
                     IF last.pre[i].uuid = h.uuid
                     THEN [last.pre[i] EXCEPT !.abspath = StoredLocation(h)]
                     ELSE last.pre[i]]

\* C20: the ids with an entry in the cache are ids of the table; no entry
\* outlives the row of its member.
C20_CacheWithinTable ==
    DOMAIN cache \subseteq Range(get_members_uuid(table))

\* a remove has deleted the row of a member that had a cache entry
C20_Witness ==
    /\ last.op = "remove"
    /\ last.exc = "none"
    /\ \E u \in DOMAIN last.preCache :
         /\ Truthy(last.preCache[u])
         /\ Where(last.pre, u) # {}
         /\ Where(table, u) = {}
         /\ u \notin DOMAIN cache

(***************************************************************************)
(* What does hold of the operations above, beside the claims               *)
(***************************************************************************)
\* ids are unique, and re-adding a present id rewrites only that row's path
\* field, with the absolute path cut to the width of the field
Lemma_UpsertStoredLocation ==
    /\ \A i, j \in 1..Len(table) : table[i].uuid = table[j].uuid => i = j
    /\ (/\ last.op = "add"
        /\ Len(last.arg) = 1
        /\ last.arg[1].tag = "cont"
        /\ Where(last.pre, last.arg[1].h.uuid) # {}) =>
           /\ last.exc = "none"
           /\ Len(table) = Len(last.pre)
           /\ \A i \in 1..Len(table) :
                table[i] = IF last.pre[i].uuid = last.arg[1].h.uuid
                           THEN [last.pre[i] EXCEPT !.abspath =
                                   Field(Abspath(last.arg[1].h.basedir),
                                         PathLength)]
                           ELSE last.pre[i]

\* on a table that is not None, list() with every pending id found returns
\* the handles aligned with the rows
Lemma_ListAlignedWhenTableExists ==
    (last.op = "list" /\ AllFound(last.found) /\ last.preShape # "None") =>
        /\ last.exc = "none"
        /\ Len(last.ret) = Len(table)
        /\ \A i \in 1..Len(table) :
             /\ Truthy(last.ret[i])
             /\ The(last.ret[i]).uuid = table[i].uuid

\* on a table that is not None, map() with every member found returns the
\* results in member order for either number of processes
Lemma_MapOrderWhenTableExists ==
    (last.op = "map" /\ AllFound(last.found) /\ last.preShape # "None") =>
        /\ last.exc = "none"
        /\ Len(last.ret) = Len(table)
        /\ \A i \in 1..Len(table) :
             last.ret[i] = F(The(cache[table[i].uuid]))

\* map() never has two tasks in the pool at once
Lemma_OneTaskInFlight == Cardinality(map.queued \cup map.running) <= 1

\* on a table that is not None, removing an unknown id raises nothing and
\* keeps the rows, and a second removal of the same member changes nothing
Lemma_RemoveUnknownWhenTableExists ==
    (RemovedByHandle /\ last.preShape # "None") =>
        /\ last.exc = "none"
        /\ (Where(last.pre, last.arg.members[1].h.uuid) = {}) =>
              SameRows(table, last.pre)
        /\ LET again == remove(Backend, cache, last.arg.members, FALSE)
           IN /\ again.exc = "none"
              /\ SameRows(again.rows, table)
              /\ again.cache = cache

\* a list() that succeeds refreshes the row of every pending member with the
\* absolute path of the handle found, cut to the width of the path field
Lemma_RefreshStoredLocation ==
    (last.op = "list" /\ last.exc = "none") => Refreshed(StoredLocation)

\* an IOError of the refresh never fails list(): with every pending id found
\* the handles are returned in table order
Lemma_RefreshFailureSwallowed ==
    (last.op = "list_io" /\ AllFound(last.found)) =>
        /\ last.exc = "none"
        /\ Len(last.ret) = Len(table)
        /\ \A i \in 1..Len(table) :
             /\ Truthy(last.ret[i])
             /\ The(last.ret[i]).uuid = table[i].uuid

\* C17, the part that holds: the collection a slice returns has the ids of
\* the source at the positions of the slice, in order.
Lemma_SliceIds ==
    (last.op = "slice" /\ last.exc = "none") =>
        get_members_uuid(last.ret[1].rows) =
            SubSeq(get_members_uuid(table), last.arg[1] + 1,
                   IF last.arg[2] < Len(table)
                   THEN last.arg[2] ELSE Len(table))

\* C3, the part that holds: del_member(all=True) leaves no row, in whatever
\* state and with whatever uuids it is called; it leaves the table None
Lemma_DeleteAllEmptiesTable ==
    (last.op = "del_member" /\ last.arg.all) =>
        (last.exc = "none" /\ table = <<>> /\ shape = "None")

\* C3, the queries: on a table left None by del_member(all=True) after it
\* had rows, len() raises TypeError
Lemma_LengthAfterDeleteAll ==
    (last.op = "len" /\ last.preShape = "None") => last.exc = "TypeError"

\* C12, the backend: del_member with uuids that are in no row leaves the rows
\* as they are, and raises only when the table is None or without fields
Lemma_DelMemberUnknown ==
    (/\ last.op = "del_member"
     /\ ~last.arg.all
     /\ last.arg.uuids # {}
     /\ \A u \in last.arg.uuids : Where(last.pre, u) = {}) =>
        /\ SameRows(table, last.pre)
        /\ last.exc = IF last.preShape \in {"None", "object"}
                      THEN (IF last.preShape = "None"
                            THEN "TypeError" ELSE "IndexError")
                      ELSE "none"

\* map() on a table without fields: the IndexError of _list() ends the loop
\* of `for member in self`, so with one process map returns the empty list,
\* and with a pool self.uuids raises the IndexError
Lemma_MapOnTableWithoutFields ==
    (last.op = "map" /\ shape = "object") =>
        /\ last.ret = <<>>
        /\ last.exc = IF last.arg > 1 THEN "IndexError" ELSE "none"

\* C11, the part that holds: on a table that is not None, remove() without
\* all=True and with an argument that is neither an integer nor a handle
\* raises before it touches the backend, so table and cache stay as they
\* were; the exception is IndexError when an integer argument before the
\* invalid one is out of range for the table, TypeError otherwise
Lemma_RemoveRaisesBeforeMutating ==
    (/\ last.op = "remove"
     /\ ~last.arg.all
     /\ HasOther(last.arg.members)
     /\ last.preShape \in {"2d", "1d"}) =>
        /\ last.exc =
             IF BadIndexBefore(last.arg.members,
                               FirstOther(last.arg.members), Len(last.pre))
             THEN "IndexError" ELSE "TypeError"
        /\ Untouched

====
